---- MODULE Spec2Model ----
(***************************************************************************)
(* Model of backend/src/govsg/services/govsg-callback.service.ts:          *)
(* parseWebhook and the two handlers it dispatches to,                     *)
(* parseTemplateMessageWebhook (status reconciliation against the          *)
(* GovsgMessage and GovsgMessageTransactional tables) and                  *)
(* parseUserMessageWebhook (auto-reply decision and send).                 *)
(*                                                                         *)
(* A JavaScript object is a record with a field "keys" (the keys that are  *)
(* present) next to its values; an optional value is a sequence of length  *)
(* 0 or 1.  A database row and a Sequelize field set are functions from    *)
(* the populated column names to their values.                             *)
(***************************************************************************)
EXTENDS Integers, Sequences, FiniteSets, TLC

VARIABLES
    GovsgMessage,              \* table: serviceProviderMessageId -> row
    GovsgMessageTransactional, \* table: serviceProviderMessageId -> row
    env,                       \* config.get('env')
    now,                       \* the clock read by new Date()
    pending,                   \* update promises started with `void`, not yet settled
    invocations,               \* number of parseWebhook calls made so far
    body,                      \* argument of the latest parseWebhook call
    clientId,                  \* argument of the latest parseWebhook call
    result,                    \* what the latest parseWebhook call did
    applied,                   \* the updates that reached the database, in that order
    regexThrows                \* RegExp.prototype.test throws in this process

vars == <<GovsgMessage, GovsgMessageTransactional, env, now, pending,
          invocations, body, clientId, result, applied, regexThrows>>

----------------------------------------------------------------------------
(* Bounds of the model *)

MaxInvocations == 1
MaxBodyLen == 2
MaxSeqInvocations == 2

----------------------------------------------------------------------------
(* Values *)

MessageIds == {"m1", "m2"}

\* WhatsAppMessageStatus, and one value outside the enum
KnownStatuses == {"sent", "delivered", "read", "deleted", "failed", "warning"}
WireStatuses == KnownStatuses \cup {"pending"}

ErrA == [code |-> 470, title |-> "Outside window", details |-> "24h", href |-> "https://e/470"]
ErrB == [code |-> 1013, title |-> "Not on WhatsApp", details |-> "n/a", href |-> "https://e/1013"]

Env == {"development", "staging", "production"}
ApiClients == {"clientOne", "clientTwo"}
WhatsAppIds == {"6591234567", "6598765432"}

\* the row of a message as the send path leaves it
NewRow(id) == [serviceProviderMessageId |-> id, status |-> "ACCEPTED"]

----------------------------------------------------------------------------
(* Errors a call can end with *)

Returned == [kind |-> "returned", message |-> ""]
Thrown(class, msg) == [kind |-> class, message |-> msg]

MalformedWebhookError == Thrown("UnexpectedWebhookError", "Unexpected webhook body")
InvariantViolationError ==
    Thrown("UnexpectedWebhookError", "Received webhook for message that exists in both tables")
UnhandledStatusError(status) == Thrown("Error", "Unhandled status: " \o status)
\* reading a property of undefined, or validator's assertString
TypeError == Thrown("TypeError", "")

----------------------------------------------------------------------------
(* Strings.  A text that is scanned character by character is a sequence *)
(* of one-character strings; Chars converts a literal to that form.       *)

Chars(s) == [i \in 1..Len(s) |-> SubSeq(s, i, i)]

UpperCaseLetters == Chars("ABCDEFGHIJKLMNOPQRSTUVWXYZ")
LowerCaseLetters == Chars("abcdefghijklmnopqrstuvwxyz")

LowerOf ==
    [c \in {UpperCaseLetters[i] : i \in 1..Len(UpperCaseLetters)} |->
        LowerCaseLetters[CHOOSE i \in 1..Len(UpperCaseLetters) : UpperCaseLetters[i] = c]]

toLowerCaseChar(c) == IF c \in DOMAIN LowerOf THEN LowerOf[c] ELSE c

\* String.prototype.toLowerCase
toLowerCase(s) == [i \in 1..Len(s) |-> toLowerCaseChar(s[i])]

Digits == "0123456789"

\* Number.prototype.toString for a non-negative integer
RECURSIVE toString(_)
toString(n) ==
    IF n < 10 THEN SubSeq(Digits, n + 1, n + 1)
    ELSE toString(n \div 10) \o SubSeq(Digits, (n % 10) + 1, (n % 10) + 1)

Repeat(c, n) == [i \in 1..n |-> c]

\* validator.blacklist(str, chars): str.replace(new RegExp('[' + chars + ']+', 'g'), '')
BlacklistChars == {"/", "\\", "[", "]", "<", ">", "(", ")", "*"}

blacklist(s, chars) == SelectSeq(s, LAMBDA c : c \notin chars)

----------------------------------------------------------------------------
(* Regular expressions: literals, "." and a postfix "*", flag i *)

LineTerminators == {"\n", "\r"}

AtomMatches(a, ch) ==
    IF a = "." THEN ch \notin LineTerminators
    ELSE toLowerCaseChar(ch) = toLowerCaseChar(a)

RECURSIVE MatchHere(_, _, _, _)
MatchHere(re, k, input, i) ==
    IF k > Len(re) THEN TRUE
    ELSE IF k + 1 <= Len(re) /\ re[k + 1] = "*"
    THEN \/ MatchHere(re, k + 2, input, i)
         \/ /\ i <= Len(input)
            /\ AtomMatches(re[k], input[i])
            /\ MatchHere(re, k, input, i + 1)
    ELSE /\ i <= Len(input)
         /\ AtomMatches(re[k], input[i])
         /\ MatchHere(re, k + 1, input, i + 1)

\* RegExp.prototype.test
test(re, input) == \E i \in 1..(Len(input) + 1) : MatchHere(re, 1, input, i)

SuppressionPatterns ==
    << Chars("auto.reply"), Chars("thank"), Chars("received your message"),
       Chars("http"), Chars("out.of.office"), Chars("dear customer*") >>

\* variant: the catch block lets the reply through
matchAnyRegex_CatchReturnsFalse(input, validations) ==
    IF regexThrows THEN FALSE
    ELSE \E index \in 1..Len(validations) : test(validations[index], input)

\* the loop returns true at the first match; the catch block returns true
matchAnyRegex(input, validations) ==
    IF regexThrows THEN TRUE
    ELSE \E index \in 1..Len(validations) : test(validations[index], input)

MaxAutoReplyLen == 256

\* variant: the upper length limit is missing
shouldSendAutoReply_NoUpperLimit(messageBody) ==
    IF Len(messageBody) = 0 THEN FALSE
    ELSE IF matchAnyRegex(toLowerCase(messageBody), SuppressionPatterns) THEN FALSE
    ELSE TRUE

\* variant: the length limit excludes 256 itself
shouldSendAutoReply_LimitExclusive(messageBody) ==
    IF Len(messageBody) >= MaxAutoReplyLen \/ Len(messageBody) = 0 THEN FALSE
    ELSE IF matchAnyRegex(toLowerCase(messageBody), SuppressionPatterns) THEN FALSE
    ELSE TRUE

shouldSendAutoReply(messageBody) ==
    IF Len(messageBody) > MaxAutoReplyLen \/ Len(messageBody) = 0 THEN FALSE
    ELSE IF matchAnyRegex(toLowerCase(messageBody), SuppressionPatterns) THEN FALSE
    ELSE TRUE

----------------------------------------------------------------------------
(* Outbound client calls made by sendAutoReply *)

AutoReplyText ==
    "If you are inquiring about COVID-19 updates, the COVID-19 infobot is temporarily unavailable due to maintenance work. For more COVID-19 related information, please visit the Ministry of Health's website at moh.gov.sg. Thank you"

\* variant: every mode but production counts as local
sendAutoReply_NonProduction(whatsappId, cid, e) ==
    LET isLocal == (e # "production") IN
    IF isLocal
    THEN << [method |-> "sendTemplateMessage", recipient |-> whatsappId,
             apiClient |-> cid, templateName |-> "2019covid19_ack",
             params |-> <<>>, language |-> "en", isLocal |-> isLocal] >>
    ELSE << [method |-> "sendTextMessage", recipient |-> whatsappId,
             apiClient |-> cid, body |-> AutoReplyText] >>

sendAutoReply(whatsappId, cid, e) ==
    LET isLocal == (e = "development") IN
    IF isLocal
    THEN << [method |-> "sendTemplateMessage", recipient |-> whatsappId,
             apiClient |-> cid, templateName |-> "2019covid19_ack",
             params |-> <<>>, language |-> "en", isLocal |-> isLocal] >>
    ELSE << [method |-> "sendTextMessage", recipient |-> whatsappId,
             apiClient |-> cid, body |-> AutoReplyText] >>

\* variant: the decision is taken on the raw body
parseUserMessageWebhook_DecidesOnRaw(b, cid, e) ==
    IF Len(b.contacts) = 0 \/ Len(b.messages) = 0
    THEN [outcome |-> TypeError, sends |-> <<>>]
    ELSE
    LET whatsappId == b.contacts[1].wa_id
        message == b.messages[1]
    IN
    IF message.type # "text"
    THEN [outcome |-> Returned, sends |-> <<>>]
    ELSE IF Len(message.text) = 0
    THEN [outcome |-> TypeError, sends |-> <<>>]
    ELSE
    LET rawMessageBody == message.text[1].body
        autoReplyNeeded == shouldSendAutoReply(rawMessageBody)
    IN
    IF ~autoReplyNeeded
    THEN [outcome |-> Returned, sends |-> <<>>]
    ELSE [outcome |-> Returned, sends |-> sendAutoReply(whatsappId, cid, e)]

parseUserMessageWebhook(b, cid, e) ==
    IF Len(b.contacts) = 0 \/ Len(b.messages) = 0
    THEN [outcome |-> TypeError, sends |-> <<>>]
    ELSE
    LET whatsappId == b.contacts[1].wa_id
        message == b.messages[1]
    IN
    IF message.type # "text"
    THEN [outcome |-> Returned, sends |-> <<>>]
    ELSE IF Len(message.text) = 0
    THEN [outcome |-> TypeError, sends |-> <<>>]
    ELSE
    LET rawMessageBody == message.text[1].body
        sanitisedMessageBody == blacklist(rawMessageBody, BlacklistChars)
        autoReplyNeeded == shouldSendAutoReply(sanitisedMessageBody)
    IN
    IF ~autoReplyNeeded
    THEN [outcome |-> Returned, sends |-> <<>>]
    ELSE [outcome |-> Returned, sends |-> sendAutoReply(whatsappId, cid, e)]

----------------------------------------------------------------------------
(* Status reconciliation *)

\* core/constants govsgMessageStatusMapper
govsgMessageStatusMapper(whatsappStatus) ==
    CASE whatsappStatus = "sent"      -> "SENT"
      [] whatsappStatus = "delivered" -> "DELIVERED"
      [] whatsappStatus = "read"      -> "READ"
      [] whatsappStatus = "deleted"   -> "DELETED"
      [] whatsappStatus = "failed"    -> "ERROR"
      [] whatsappStatus = "warning"   -> "WARNING"

\* Model.findOne({ where: { serviceProviderMessageId } })
findOne(table, messageId) ==
    IF messageId \in DOMAIN table THEN << table[messageId] >> ELSE << >>

\* the calls `void govsgMessage?.update(...)` and
\* `void govsgMessageTransactional?.update(...)` of one case, in order
\* variant: both models are updated, found or not
updateBoth_Unconditional(govsgMessage, govsgMessageTransactional, fieldOpts, whereOpts) ==
    << [model |-> "GovsgMessage", fieldOpts |-> fieldOpts, whereOpts |-> whereOpts],
       [model |-> "GovsgMessageTransactional", fieldOpts |-> fieldOpts, whereOpts |-> whereOpts] >>

updateBoth(govsgMessage, govsgMessageTransactional, fieldOpts, whereOpts) ==
    (IF Len(govsgMessage) # 0
     THEN << [model |-> "GovsgMessage", fieldOpts |-> fieldOpts, whereOpts |-> whereOpts] >>
     ELSE << >>)
    \o
    (IF Len(govsgMessageTransactional) # 0
     THEN << [model |-> "GovsgMessageTransactional", fieldOpts |-> fieldOpts, whereOpts |-> whereOpts] >>
     ELSE << >>)

\* variant: the error columns are written even without error details
failedFieldOpts_AlwaysDetails(b, whatsappStatus, t) ==
    IF "errors" \notin b.keys \/ Len(b.errors) = 0
    THEN [status |-> govsgMessageStatusMapper(whatsappStatus),
          errorCode |-> "undefined",
          errorDescription |-> "undefined Details: undefined href: undefined",
          erroredAt |-> t]
    ELSE [status |-> govsgMessageStatusMapper(whatsappStatus),
          errorCode |-> toString(b.errors[1].code),
          errorDescription |-> b.errors[1].title \o " Details: " \o b.errors[1].details
                               \o " href: " \o b.errors[1].href,
          erroredAt |-> t]

failedFieldOpts(b, whatsappStatus, t) ==
    IF "errors" \notin b.keys \/ Len(b.errors) = 0
    THEN [status |-> govsgMessageStatusMapper(whatsappStatus), erroredAt |-> t]
    ELSE [status |-> govsgMessageStatusMapper(whatsappStatus),
          errorCode |-> toString(b.errors[1].code),
          errorDescription |-> b.errors[1].title \o " Details: " \o b.errors[1].details
                               \o " href: " \o b.errors[1].href,
          erroredAt |-> t]

sentFieldOpts(whatsappStatus, t) ==
    [status |-> govsgMessageStatusMapper(whatsappStatus), sentAt |-> t]

deliveredFieldOpts(whatsappStatus, t) ==
    [status |-> govsgMessageStatusMapper(whatsappStatus), deliveredAt |-> t]

\* variant: read is stamped in the delivered column
readFieldOpts_DeliveredColumn(whatsappStatus, t) ==
    [status |-> govsgMessageStatusMapper(whatsappStatus), deliveredAt |-> t]

readFieldOpts(whatsappStatus, t) ==
    [status |-> govsgMessageStatusMapper(whatsappStatus), readAt |-> t]

deletedFieldOpts(whatsappStatus, t) ==
    [status |-> govsgMessageStatusMapper(whatsappStatus), deletedAt |-> t]

\* the two guards that precede the switch
\* variant: the early return for an unknown id is missing
existsInNeither_Never(govsgMessage, govsgMessageTransactional) == FALSE

existsInNeither(govsgMessage, govsgMessageTransactional) ==
    Len(govsgMessage) = 0 /\ Len(govsgMessageTransactional) = 0

\* variant: the check for an id in both tables is missing
existsInBoth_Never(govsgMessage, govsgMessageTransactional) == FALSE

existsInBoth(govsgMessage, govsgMessageTransactional) ==
    Len(govsgMessage) # 0 /\ Len(govsgMessageTransactional) # 0

\* variant: warning is written like the other statuses
warningCase_Writes(whatsappStatus, t) ==
    [outcome |-> Returned,
     fieldOpts |-> << [status |-> govsgMessageStatusMapper(whatsappStatus)] >>]

\* case WhatsAppMessageStatus.warning
warningCase(whatsappStatus, t) ==
    [outcome |-> Returned, fieldOpts |-> << >>]

\* variant: an unknown status is dropped silently
defaultCase_Silent(whatsappStatus) ==
    [outcome |-> Returned, fieldOpts |-> << >>]

\* default
defaultCase(whatsappStatus) ==
    [outcome |-> UnhandledStatusError(whatsappStatus), fieldOpts |-> << >>]

\* switch (whatsappStatus): how the call ends and the field set it writes, if any
statusSwitch(b, whatsappStatus, t) ==
    CASE whatsappStatus = "warning" ->
           warningCase(whatsappStatus, t)
      [] whatsappStatus = "failed" ->
           [outcome |-> Returned, fieldOpts |-> << failedFieldOpts(b, whatsappStatus, t) >>]
      [] whatsappStatus = "sent" ->
           [outcome |-> Returned, fieldOpts |-> << sentFieldOpts(whatsappStatus, t) >>]
      [] whatsappStatus = "delivered" ->
           [outcome |-> Returned, fieldOpts |-> << deliveredFieldOpts(whatsappStatus, t) >>]
      [] whatsappStatus = "read" ->
           [outcome |-> Returned, fieldOpts |-> << readFieldOpts(whatsappStatus, t) >>]
      [] whatsappStatus = "deleted" ->
           [outcome |-> Returned, fieldOpts |-> << deletedFieldOpts(whatsappStatus, t) >>]
      [] OTHER ->
           defaultCase(whatsappStatus)

parseTemplateMessageWebhook(b, gm, gmt, t) ==
    IF Len(b.statuses) = 0
    THEN [outcome |-> TypeError, queries |-> << >>, updates |-> << >>]
    ELSE
    LET messageId == b.statuses[1].id
        queries == << [model |-> "GovsgMessage",
                       where |-> [serviceProviderMessageId |-> messageId]],
                      [model |-> "GovsgMessageTransactional",
                       where |-> [serviceProviderMessageId |-> messageId]] >>
        govsgMessage == findOne(gm, messageId)
        govsgMessageTransactional == findOne(gmt, messageId)
    IN
    IF existsInNeither(govsgMessage, govsgMessageTransactional)
    THEN [outcome |-> Returned, queries |-> queries, updates |-> << >>]
    ELSE IF existsInBoth(govsgMessage, govsgMessageTransactional)
    THEN [outcome |-> InvariantViolationError, queries |-> queries, updates |-> << >>]
    ELSE
    LET whatsappStatus == b.statuses[1].status
        whereOpts == [where |-> [serviceProviderMessageId |-> messageId]]
        switch == statusSwitch(b, whatsappStatus, t)
    IN  [outcome |-> switch.outcome,
         queries |-> queries,
         updates |-> IF Len(switch.fieldOpts) = 0 THEN << >>
                     ELSE updateBoth(govsgMessage, govsgMessageTransactional,
                                     switch.fieldOpts[1], whereOpts)]

----------------------------------------------------------------------------
(* Classification and dispatch *)

\* variant: the status branch does not return, so the message branch runs too
parseWebhook_FallsThrough(b, cid, gm, gmt, e, t) ==
    IF b.type # "object"
    THEN [route |-> "none", outcome |-> MalformedWebhookError,
          queries |-> << >>, updates |-> << >>, sends |-> << >>]
    ELSE IF "statuses" \in b.keys
    THEN LET r == parseTemplateMessageWebhook(b, gm, gmt, t)
             u == IF r.outcome = Returned /\ "messages" \in b.keys /\ "contacts" \in b.keys
                  THEN parseUserMessageWebhook(b, cid, e)
                  ELSE [outcome |-> r.outcome, sends |-> << >>]
         IN  [route |-> "parseTemplateMessageWebhook", outcome |-> u.outcome,
              queries |-> r.queries, updates |-> r.updates, sends |-> u.sends]
    ELSE IF "messages" \in b.keys /\ "contacts" \in b.keys
    THEN LET r == parseUserMessageWebhook(b, cid, e)
         IN  [route |-> "parseUserMessageWebhook", outcome |-> r.outcome,
              queries |-> << >>, updates |-> << >>, sends |-> r.sends]
    ELSE [route |-> "none", outcome |-> MalformedWebhookError,
          queries |-> << >>, updates |-> << >>, sends |-> << >>]

\* variant: the message shape is tested before the status shape
parseWebhook_MessagesFirst(b, cid, gm, gmt, e, t) ==
    IF b.type # "object"
    THEN [route |-> "none", outcome |-> MalformedWebhookError,
          queries |-> << >>, updates |-> << >>, sends |-> << >>]
    ELSE IF "messages" \in b.keys /\ "contacts" \in b.keys
    THEN LET r == parseUserMessageWebhook(b, cid, e)
         IN  [route |-> "parseUserMessageWebhook", outcome |-> r.outcome,
              queries |-> << >>, updates |-> << >>, sends |-> r.sends]
    ELSE IF "statuses" \in b.keys
    THEN LET r == parseTemplateMessageWebhook(b, gm, gmt, t)
         IN  [route |-> "parseTemplateMessageWebhook", outcome |-> r.outcome,
              queries |-> r.queries, updates |-> r.updates, sends |-> << >>]
    ELSE [route |-> "none", outcome |-> MalformedWebhookError,
          queries |-> << >>, updates |-> << >>, sends |-> << >>]

parseWebhook(b, cid, gm, gmt, e, t) ==
    IF b.type # "object"
    THEN [route |-> "none", outcome |-> MalformedWebhookError,
          queries |-> << >>, updates |-> << >>, sends |-> << >>]
    ELSE IF "statuses" \in b.keys
    THEN LET r == parseTemplateMessageWebhook(b, gm, gmt, t)
         IN  [route |-> "parseTemplateMessageWebhook", outcome |-> r.outcome,
              queries |-> r.queries, updates |-> r.updates, sends |-> << >>]
    ELSE IF "messages" \in b.keys /\ "contacts" \in b.keys
    THEN LET r == parseUserMessageWebhook(b, cid, e)
         IN  [route |-> "parseUserMessageWebhook", outcome |-> r.outcome,
              queries |-> << >>, updates |-> << >>, sends |-> r.sends]
    ELSE [route |-> "none", outcome |-> MalformedWebhookError,
          queries |-> << >>, updates |-> << >>, sends |-> << >>]

----------------------------------------------------------------------------
(* Webhook payloads offered to parseWebhook *)

Payload(type, keys, statuses, errors, messages, contacts) ==
    [type |-> type, keys |-> keys, statuses |-> statuses, errors |-> errors,
     messages |-> messages, contacts |-> contacts]

\* one element of `statuses`; errs is its own `errors` value, if it has one
StatusEvent(id, status, errs) ==
    [id |-> id, status |-> status, errors |-> errs]

Contact(waId) == [wa_id |-> waId]
TextMessage(id, text) == [id |-> id, type |-> "text", text |-> << [body |-> text] >>]
OtherMessage(id, type) == [id |-> id, type |-> type, text |-> << >>]

EventErrors == { << >>, << << >> >>, << << ErrA >> >> }
BodyErrors == { << >>, << << >> >>, << << ErrB >> >>, << << ErrB, ErrA >> >> }

StatusPayload(statuses, bodyErrs, extraKeys, messages, contacts) ==
    Payload("object",
            {"statuses"} \cup extraKeys \cup (IF Len(bodyErrs) = 0 THEN {} ELSE {"errors"}),
            statuses,
            IF Len(bodyErrs) = 0 THEN << >> ELSE bodyErrs[1],
            messages, contacts)

MessagePayload(keys, messages, contacts) ==
    Payload("object", keys, << >>, << >>, messages, contacts)

Alphabet == {"a", "H", "/", "*"}

\* every text over Alphabet of length at most n
Strings(n) == UNION { [1..k -> Alphabet] : k \in 0..n }

SampleTexts ==
    { Chars("When will I receive my results?"),
      Chars("Thank you for your message"),
      Chars("Out-of-office until Monday"),
      Chars("see http://example.com"),
      Chars("Auto-reply: I am away"),
      Chars("autoreply"),
      Chars("auto/reply"),
      Chars("auto\nreply"),
      Chars("We have received your message"),
      Chars("Dear Customer, your parcel"),
      Chars("dear custome"),
      Chars("<th>an(k)"),
      Chars("(*)[]"),
      Chars("HTTP") }

\* texts around the length limit
LongTexts ==
    { Repeat("a", MaxAutoReplyLen),
      Repeat("a", MaxAutoReplyLen + 1),
      Repeat("a", MaxAutoReplyLen) \o << "/" >>,
      Repeat("/", MaxAutoReplyLen + 1) \o << "a" >> }

Texts == SampleTexts \cup Strings(MaxBodyLen)

StatusPayloads ==
    { StatusPayload(<< StatusEvent(id, st, << >>) >>, << >>, {}, << >>, << >>) :
        id \in MessageIds, st \in WireStatuses }
    \cup
    { StatusPayload(<< StatusEvent(id, "failed", ee) >>, be, {}, << >>, << >>) :
        id \in MessageIds, ee \in EventErrors, be \in BodyErrors }
    \cup
    { StatusPayload(<< StatusEvent("m1", st, << << ErrA >> >>) >>, << << ErrB >> >>, {}, << >>, << >>) :
        st \in {"sent", "warning", "pending"} }
    \cup
    { StatusPayload(<< StatusEvent(id, "delivered", << >>),
                       StatusEvent(other, "read", << >>) >>, << >>, {}, << >>, << >>) :
        id \in MessageIds, other \in MessageIds }
    \cup
    { StatusPayload(<< >>, << >>, {}, << >>, << >>) }
    \cup
    { StatusPayload(<< StatusEvent("m1", "delivered", << >>) >>, << >>, extra,
                    << TextMessage("in1", Chars("When will I receive my results?")) >>,
                    << Contact("6591234567") >>) :
        extra \in { {"messages", "contacts"}, {"messages"}, {"contacts"} } }

TextPayloads(texts) ==
    { MessagePayload({"messages", "contacts"}, << TextMessage("in1", t) >>, << Contact(w) >>) :
        t \in texts, w \in WhatsAppIds }

MessagePayloads ==
    { MessagePayload({"messages", "contacts"}, << TextMessage("in1", t) >>,
                     << Contact("6591234567") >>) : t \in SampleTexts }
    \cup
    { MessagePayload({"messages", "contacts"},
                     << TextMessage("in1", Chars("Hello")), TextMessage("in2", Chars("thanks")) >>,
                     << Contact("6598765432"), Contact("6591234567") >>),
      MessagePayload({"messages", "contacts"}, << OtherMessage("in1", "image") >>,
                     << Contact("6591234567") >>),
      MessagePayload({"messages", "contacts"}, << OtherMessage("in1", "text") >>,
                     << Contact("6591234567") >>),
      MessagePayload({"messages", "contacts"}, << >>, << Contact("6591234567") >>),
      MessagePayload({"messages", "contacts"}, << TextMessage("in1", Chars("Hello")) >>, << >>),
      MessagePayload({"messages"}, << TextMessage("in1", Chars("Hello")) >>, << >>),
      MessagePayload({"contacts"}, << >>, << Contact("6591234567") >>),
      MessagePayload({"errors"}, << >>, << >>),
      MessagePayload({}, << >>, << >>) }

OtherPayloads ==
    { Payload(type, {}, << >>, << >>, << >>, << >>) :
        type \in {"null", "undefined", "string", "number", "boolean"} }

Payloads == StatusPayloads \cup MessagePayloads \cup OtherPayloads

\* the arguments (body, clientId) of a call
Inputs ==
    (Payloads \X {"clientOne"})
    \cup ({ b \in MessagePayloads : Len(b.messages) = 2 \/ Len(b.contacts) = 0 } \X {"clientTwo"})

\* calls that carry one text message, the long texts included
TextInputs ==
    (TextPayloads(Texts \cup LongTexts) \X {"clientOne"})
    \cup (TextPayloads(LongTexts) \X {"clientTwo"})
    \cup ({ MessagePayload({"messages", "contacts"}, << OtherMessage("in1", type) >>,
                           << Contact("6591234567") >>) : type \in {"image", "document"} }
          \X {"clientOne"})

----------------------------------------------------------------------------
(* The tables *)

\* variant: every update also bumps a counter column
Merge_Counting(row, fieldOpts) ==
    [ k \in (DOMAIN row) \cup (DOMAIN fieldOpts) \cup {"updateCount"} |->
        IF k = "updateCount"
        THEN (IF k \in DOMAIN row THEN row[k] + 1 ELSE 1)
        ELSE IF k \in DOMAIN fieldOpts THEN fieldOpts[k] ELSE row[k] ]

\* variant: the row is replaced by the given columns
Merge_Replace(row, fieldOpts) ==
    [ k \in {"serviceProviderMessageId"} \cup (DOMAIN fieldOpts) |->
        IF k \in DOMAIN fieldOpts THEN fieldOpts[k] ELSE row[k] ]

\* Model.prototype.update(fieldOpts): the given columns are written, the
\* others keep their value
Merge(row, fieldOpts) ==
    [ k \in (DOMAIN row) \cup (DOMAIN fieldOpts) |->
        IF k \in DOMAIN fieldOpts THEN fieldOpts[k] ELSE row[k] ]

applyUpdate(table, call) ==
    LET id == call.whereOpts.where.serviceProviderMessageId
    IN  [table EXCEPT ![id] = Merge(@, call.fieldOpts)]

RemoveAt(seq, i) == SubSeq(seq, 1, i - 1) \o SubSeq(seq, i + 1, Len(seq))

NoCall == [route |-> "idle", outcome |-> Returned, queries |-> << >>,
           updates |-> << >>, sends |-> << >>]

----------------------------------------------------------------------------
(* The state machine *)

Init ==
    /\ \E ordinary \in SUBSET MessageIds :
           GovsgMessage = [id \in ordinary |-> NewRow(id)]
    /\ \E transactional \in SUBSET MessageIds :
           GovsgMessageTransactional = [id \in transactional |-> NewRow(id)]
    /\ env \in Env
    /\ now = 0
    /\ pending = << >>
    /\ invocations = 0
    /\ body = Payload("undefined", {}, << >>, << >>, << >>, << >>)
    /\ clientId = "clientOne"
    /\ result = NoCall
    /\ applied = << >>
    /\ regexThrows = FALSE

\* one call of GovsgCallbackService.parseWebhook, up to its return or throw,
\* while fewer than max calls have been made
ParseWebhookUpTo(b, cid, max) ==
    /\ invocations < max
    /\ LET r == parseWebhook(b, cid, GovsgMessage, GovsgMessageTransactional, env, now)
       IN  /\ result' = r
           /\ pending' = pending \o r.updates
    /\ body' = b
    /\ clientId' = cid
    /\ invocations' = invocations + 1
    /\ now' = now + 1
    /\ UNCHANGED <<GovsgMessage, GovsgMessageTransactional, env, applied, regexThrows>>

ParseWebhook(b, cid) == ParseWebhookUpTo(b, cid, MaxInvocations)

\* an update started by a handler reaches the database
CompleteUpdate(i) ==
    /\ i \in 1..Len(pending)
    /\ IF pending[i].model = "GovsgMessage"
       THEN /\ GovsgMessage' = applyUpdate(GovsgMessage, pending[i])
            /\ UNCHANGED GovsgMessageTransactional
       ELSE /\ GovsgMessageTransactional' = applyUpdate(GovsgMessageTransactional, pending[i])
            /\ UNCHANGED GovsgMessage
    /\ pending' = RemoveAt(pending, i)
    /\ applied' = Append(applied, pending[i])
    /\ UNCHANGED <<env, now, invocations, body, clientId, result, regexThrows>>

\* variant: the rejection reaches the call, as it would had the update been awaited
FailUpdate_Rethrows(i) ==
    /\ i \in 1..Len(pending)
    /\ pending' = RemoveAt(pending, i)
    /\ result' = [result EXCEPT !.outcome = Thrown("SequelizeDatabaseError", "")]
    /\ UNCHANGED <<GovsgMessage, GovsgMessageTransactional, env, now,
                   invocations, body, clientId, applied, regexThrows>>

\* an update started by a handler is rejected by the database
FailUpdate(i) ==
    /\ i \in 1..Len(pending)
    /\ pending' = RemoveAt(pending, i)
    /\ UNCHANGED <<GovsgMessage, GovsgMessageTransactional, env, now,
                   invocations, body, clientId, result, applied, regexThrows>>

Next ==
    \/ \E in \in Inputs : ParseWebhook(in[1], in[2])
    \/ \E i \in 1..Len(pending) : CompleteUpdate(i)
    \/ \E i \in 1..Len(pending) : FailUpdate(i)

Spec == Init /\ [][Next]_vars

\* the auto-reply path alone, over every text
NextText == \E in \in TextInputs : ParseWebhook(in[1], in[2])

InitText ==
    /\ Init
    /\ DOMAIN GovsgMessage = {}
    /\ DOMAIN GovsgMessageTransactional = {}

SpecText == InitText /\ [][NextText]_vars

\* status webhooks about one message, one call after the other; "m2" only
\* ever comes second in a batch
SeqInputs ==
    ({ StatusPayload(<< StatusEvent("m1", st, << >>) >>, << >>, {}, << >>, << >>) :
         st \in {"sent", "delivered", "read", "warning"} }
     \cup
     { StatusPayload(<< StatusEvent("m1", "failed", << >>) >>, be, {}, << >>, << >>) :
         be \in { << >>, << << ErrB >> >> } }
     \cup
     { StatusPayload(<< StatusEvent("m1", "delivered", << >>),
                        StatusEvent("m2", "read", << >>) >>, << >>, {}, << >>, << >>) })
    \X {"clientOne"}

\* every message is in exactly one of the two tables
InitSeq ==
    /\ Init
    /\ env = "production"
    /\ DOMAIN GovsgMessage \cap DOMAIN GovsgMessageTransactional = {}
    /\ DOMAIN GovsgMessage \cup DOMAIN GovsgMessageTransactional = MessageIds

NextSeq ==
    \/ \E in \in SeqInputs : ParseWebhookUpTo(in[1], in[2], MaxSeqInvocations)
    \/ \E i \in 1..Len(pending) : CompleteUpdate(i)
    \/ \E i \in 1..Len(pending) : FailUpdate(i)

SpecSeq == InitSeq /\ [][NextSeq]_vars

\* the auto-reply path when RegExp.prototype.test throws inside matchAnyRegex
InitFault ==
    /\ GovsgMessage = [id \in {} |-> NewRow(id)]
    /\ GovsgMessageTransactional = [id \in {} |-> NewRow(id)]
    /\ env \in Env
    /\ now = 0
    /\ pending = << >>
    /\ invocations = 0
    /\ body = Payload("undefined", {}, << >>, << >>, << >>, << >>)
    /\ clientId = "clientOne"
    /\ result = NoCall
    /\ applied = << >>
    /\ regexThrows = TRUE

SpecFault == InitFault /\ [][NextText]_vars

----------------------------------------------------------------------------
(* Vocabulary of the properties: all of it is about the latest call *)

Called == invocations > 0

Reconciled == Called /\ result.route = "parseTemplateMessageWebhook"
Decided == Called /\ result.route = "parseUserMessageWebhook"

\* the latest call was a status webhook whose first status is a proper event
StatusCall == Reconciled /\ Len(body.statuses) > 0

EventId == body.statuses[1].id
EventStatus == body.statuses[1].status

InOrdinary == EventId \in DOMAIN GovsgMessage
InTransactional == EventId \in DOMAIN GovsgMessageTransactional
InExactlyOne == InOrdinary # InTransactional
MatchedModel == IF InOrdinary THEN "GovsgMessage" ELSE "GovsgMessageTransactional"

\* the clock value the latest call read
CallTime == now - 1

TimestampOf(status) ==
    CASE status = "sent"      -> "sentAt"
      [] status = "delivered" -> "deliveredAt"
      [] status = "read"      -> "readAt"
      [] status = "deleted"   -> "deletedAt"

----------------------------------------------------------------------------
(* C1 *)

RoutedToReconciliation ==
    /\ result.route = "parseTemplateMessageWebhook"
    /\ Len(body.statuses) > 0 =>
          /\ Len(result.queries) = 2
          /\ \A i \in 1..2 :
                result.queries[i].where.serviceProviderMessageId = body.statuses[1].id

RoutedToDecision ==
    /\ result.route = "parseUserMessageWebhook"
    /\ result.queries = << >>
    /\ result.updates = << >>
    /\ \A i \in 1..Len(result.sends) : result.sends[i].recipient = body.contacts[1].wa_id
    /\ (Len(body.messages) > 0 /\ Len(body.contacts) > 0 /\ body.messages[1].type # "text")
          => result.sends = << >>

RejectedAsMalformed ==
    /\ result.route = "none"
    /\ result.outcome = MalformedWebhookError
    /\ result.queries = << >> /\ result.updates = << >> /\ result.sends = << >>

\* C1 as stated: a payload with `statuses` and neither `messages` nor
\* `contacts` goes to reconciliation, a payload with both `messages` and
\* `contacts` goes to the decision path, and every other payload is rejected
\* as malformed.
C1_AsStated ==
    Called =>
        IF body.type = "object" /\ "statuses" \in body.keys
           /\ "messages" \notin body.keys /\ "contacts" \notin body.keys
        THEN RoutedToReconciliation
        ELSE IF body.type = "object" /\ "messages" \in body.keys /\ "contacts" \in body.keys
        THEN RoutedToDecision
        ELSE RejectedAsMalformed

\* C1, amended: an object payload with a `statuses` key goes to reconciliation
\* whatever other keys it has, and reconciliation looks up statuses[0].id in
\* both tables; an object payload without `statuses` that has both `messages`
\* and `contacts` goes to the decision path, which uses messages[0] and
\* contacts[0]; every other payload fails with the malformed-webhook error and
\* reaches neither handler.
C1_Routing ==
    Called =>
        IF body.type = "object" /\ "statuses" \in body.keys
        THEN RoutedToReconciliation
        ELSE IF body.type = "object" /\ "messages" \in body.keys /\ "contacts" \in body.keys
        THEN RoutedToDecision
        ELSE RejectedAsMalformed

\* a payload with all three keys was reconciled
C1_Witness ==
    /\ Reconciled
    /\ {"statuses", "messages", "contacts"} \subseteq body.keys
    /\ Len(result.queries) = 2

----------------------------------------------------------------------------
(* C2 *)

\* C2: a status event with a known status other than warning whose id is in
\* exactly one table makes the call attempt exactly one update, on the row of
\* that id in that table, and none on the other table.
C2_OneUpdateOnMatchedStore ==
    (StatusCall /\ EventStatus \in KnownStatuses \ {"warning"} /\ InExactlyOne) =>
        /\ Len(result.updates) = 1
        /\ result.updates[1].model = MatchedModel
        /\ result.updates[1].whereOpts.where.serviceProviderMessageId = EventId

C2_Witness ==
    /\ StatusCall /\ EventStatus = "delivered" /\ EventId = "m1"
    /\ InOrdinary /\ ~InTransactional
    /\ Len(result.updates) = 1
    /\ result.updates[1].model = "GovsgMessage"
    /\ pending = result.updates

----------------------------------------------------------------------------
(* C3 *)

\* C3: a status event whose id is in both tables fails with the
\* invariant-violation error whatever its status, and attempts no update.
C3_BothStoresFails ==
    (StatusCall /\ InOrdinary /\ InTransactional) =>
        /\ result.outcome = InvariantViolationError
        /\ result.updates = << >>

C3_Witness ==
    /\ StatusCall /\ InOrdinary /\ InTransactional
    /\ EventStatus = "pending"
    /\ result.outcome = InvariantViolationError

----------------------------------------------------------------------------
(* C4 *)

\* C4: a status event whose id is in neither table returns normally whatever
\* its status, and attempts no update.
C4_NeitherStoreIgnored ==
    (StatusCall /\ ~InOrdinary /\ ~InTransactional) =>
        /\ result.outcome = Returned
        /\ result.updates = << >>

C4_Witness ==
    /\ StatusCall /\ ~InOrdinary /\ ~InTransactional
    /\ EventStatus = "pending"
    /\ result.outcome = Returned

----------------------------------------------------------------------------
(* C5 *)

\* C5: for sent, delivered, read and deleted matched in exactly one table the
\* field set written is the mapped status and the one timestamp of that
\* status, set to the time of the call, and nothing else.
C5_StatusAndOwnTimestamp ==
    (StatusCall /\ EventStatus \in {"sent", "delivered", "read", "deleted"} /\ InExactlyOne) =>
        /\ Len(result.updates) = 1
        /\ LET fieldOpts == result.updates[1].fieldOpts
           IN  /\ DOMAIN fieldOpts = {"status", TimestampOf(EventStatus)}
               /\ fieldOpts.status = govsgMessageStatusMapper(EventStatus)
               /\ fieldOpts[TimestampOf(EventStatus)] = CallTime
               /\ \A other \in {"sent", "delivered", "read", "deleted"} \ {EventStatus} :
                     fieldOpts.status # govsgMessageStatusMapper(other)

C5_Witness ==
    /\ StatusCall /\ EventStatus = "read" /\ InExactlyOne
    /\ Len(result.updates) = 1
    /\ DOMAIN result.updates[1].fieldOpts = {"status", "readAt"}

----------------------------------------------------------------------------
(* C6 *)

\* the error details the claims speak of, as a field set
ErrorFields(err) ==
    [errorCode |-> toString(err.code),
     errorDescription |-> err.title \o " Details: " \o err.details \o " href: " \o err.href]

\* C6: a failed status event that carries a non-empty `errors` sequence of its
\* own (statuses[0].errors) and is matched in exactly one table is written
\* with status, erroredAt, errorCode = String(errors[0].code) and an
\* errorDescription built from errors[0].title, details and href.
C6_EventErrorsWritten ==
    (/\ StatusCall /\ EventStatus = "failed" /\ InExactlyOne
     /\ Len(body.statuses[1].errors) = 1
     /\ Len(body.statuses[1].errors[1]) > 0) =>
        /\ Len(result.updates) = 1
        /\ LET fieldOpts == result.updates[1].fieldOpts
               err == body.statuses[1].errors[1][1]
           IN  /\ DOMAIN fieldOpts = {"status", "erroredAt", "errorCode", "errorDescription"}
               /\ fieldOpts.status = govsgMessageStatusMapper("failed")
               /\ fieldOpts.erroredAt = CallTime
               /\ fieldOpts.errorCode = ErrorFields(err).errorCode
               /\ fieldOpts.errorDescription = ErrorFields(err).errorDescription

----------------------------------------------------------------------------
(* C7 *)

\* the `errors` the handler reads: the key of that name on the webhook body
BodyErrorsMissing == "errors" \notin body.keys \/ Len(body.errors) = 0

----------------------------------------------------------------------------
(* C8 *)

\* C8: a status event matched in exactly one table whose status is none of
\* the six known ones fails with the unhandled-status error and attempts no
\* update.
C8_UnknownStatusFails ==
    (StatusCall /\ InExactlyOne /\ EventStatus \notin KnownStatuses) =>
        /\ result.outcome = UnhandledStatusError(EventStatus)
        /\ result.outcome.kind = "Error"
        /\ result.updates = << >>

C8_Witness ==
    /\ StatusCall /\ InExactlyOne /\ EventStatus = "pending"
    /\ result.outcome.kind = "Error"
    /\ result.updates = << >>

----------------------------------------------------------------------------
(* C9 *)

\* C9: a warning status event matched in exactly one table returns normally
\* and attempts no update; the matched row keeps every field it had.
C9_WarningLeavesRow ==
    (StatusCall /\ InExactlyOne /\ EventStatus = "warning") =>
        /\ result.outcome = Returned
        /\ result.updates = << >>
        /\ invocations = 1 =>
              /\ pending = << >>
              /\ InOrdinary => GovsgMessage[EventId] = NewRow(EventId)
              /\ InTransactional => GovsgMessageTransactional[EventId] = NewRow(EventId)

C9_Witness ==
    /\ StatusCall /\ InExactlyOne /\ EventStatus = "warning"
    /\ InTransactional
    /\ "errors" \in body.keys
    /\ result.outcome = Returned
    /\ GovsgMessageTransactional[EventId] = NewRow(EventId)

----------------------------------------------------------------------------
(* C10 *)

\* the latest call carried a text message and a contact
TextCall ==
    /\ Decided
    /\ Len(body.messages) > 0 /\ Len(body.contacts) > 0
    /\ body.messages[1].type = "text"
    /\ Len(body.messages[1].text) > 0

SanitisedBody == blacklist(body.messages[1].text[1].body, BlacklistChars)

Qualifies(text) ==
    /\ Len(text) > 0
    /\ Len(text) <= MaxAutoReplyLen
    /\ \A index \in 1..Len(SuppressionPatterns) :
          ~test(SuppressionPatterns[index], toLowerCase(text))

\* C10: a text message whose sanitised body is non-empty, at most 256
\* characters long and matches no suppression pattern makes the call send
\* exactly once, to contacts[0].wa_id.
C10_OneReplyToSender ==
    (TextCall /\ Qualifies(SanitisedBody)) =>
        /\ Len(result.sends) = 1
        /\ result.sends[1].recipient = body.contacts[1].wa_id
        /\ result.outcome = Returned

\* the longest text that still qualifies, after sanitising
C10_Witness ==
    /\ TextCall
    /\ Len(body.messages[1].text[1].body) = MaxAutoReplyLen + 1
    /\ Len(SanitisedBody) = MaxAutoReplyLen
    /\ Len(result.sends) = 1
    /\ result.sends[1].recipient = "6598765432"

----------------------------------------------------------------------------
(* C11 *)

\* the latest call reached the decision path with a message and a contact
MessageCall ==
    /\ Decided
    /\ Len(body.messages) > 0 /\ Len(body.contacts) > 0

MatchesSomePattern(text) ==
    \E index \in 1..Len(SuppressionPatterns) : test(SuppressionPatterns[index], text)

\* C11: no send is made, and the call returns normally, when the message is
\* not a text message, or its sanitised body is empty, or longer than 256
\* characters, or matches one of the suppression patterns.
C11_Suppressed ==
    (/\ MessageCall
     /\ \/ body.messages[1].type # "text"
        \/ /\ TextCall
           /\ \/ Len(SanitisedBody) = 0
              \/ Len(SanitisedBody) > MaxAutoReplyLen
              \/ MatchesSomePattern(SanitisedBody))
    => /\ result.sends = << >>
       /\ result.outcome = Returned

\* a text one character over the limit, matching no pattern, got no reply
C11_Witness ==
    /\ TextCall
    /\ Len(SanitisedBody) = MaxAutoReplyLen + 1
    /\ ~MatchesSomePattern(SanitisedBody)
    /\ result.sends = << >>
    /\ result.outcome = Returned

----------------------------------------------------------------------------
(* C12 *)

IsTemplateAck(call) ==
    /\ call.method = "sendTemplateMessage"
    /\ call.templateName = "2019covid19_ack"
    /\ call.params = << >>
    /\ call.language = "en"
    /\ call.isLocal = TRUE

IsTextAck(call) ==
    /\ call.method = "sendTextMessage"
    /\ call.body = AutoReplyText

\* C12 as stated: in every mode other than production the one call is
\* sendTemplateMessage, in production it is sendTextMessage, never both.
C12_AsStated ==
    (Decided /\ result.sends # << >>) =>
        /\ Len(result.sends) = 1
        /\ IF env # "production"
           THEN IsTemplateAck(result.sends[1])
           ELSE IsTextAck(result.sends[1])

\* C12, amended: the one call is sendTemplateMessage (fixed template, no
\* parameters, fixed language, test-mode flag set) exactly when env is
\* "development"; in every other mode, production and staging alike, it is
\* sendTextMessage with the fixed body; never both.
C12_TemplateOnlyInDevelopment ==
    (Decided /\ result.sends # << >>) =>
        /\ Len(result.sends) = 1
        /\ IF env = "development"
           THEN IsTemplateAck(result.sends[1])
           ELSE IsTextAck(result.sends[1])
        /\ result.sends[1].apiClient = clientId

\* outside production and development the reply is the text message
C12_Witness ==
    /\ Decided
    /\ env = "staging"
    /\ Len(result.sends) = 1
    /\ IsTextAck(result.sends[1])

----------------------------------------------------------------------------
(* C13 *)

\* C13: a call runs at most one handler and makes at most one side effect,
\* one update or one send and never both; a payload with `statuses` is
\* reconciled only and sends nothing, whatever other keys it has.
C13_AtMostOneEffect ==
    Called =>
        /\ Len(result.updates) + Len(result.sends) <= 1
        /\ result.route = "parseTemplateMessageWebhook" => result.sends = << >>
        /\ result.route = "parseUserMessageWebhook" =>
              (result.updates = << >> /\ result.queries = << >>)
        /\ result.route = "none" =>
              (result.updates = << >> /\ result.sends = << >> /\ result.queries = << >>)
        /\ (body.type = "object" /\ "statuses" \in body.keys) =>
              (result.route = "parseTemplateMessageWebhook" /\ result.sends = << >>)

\* statuses together with a text that would get a reply: one update, no send
C13_Witness ==
    /\ Reconciled
    /\ {"statuses", "messages", "contacts"} \subseteq body.keys
    /\ Len(body.messages) > 0
    /\ Qualifies(blacklist(body.messages[1].text[1].body, BlacklistChars))
    /\ Len(result.updates) = 1
    /\ result.sends = << >>

----------------------------------------------------------------------------
(* C14 *)

\* a step in which a started update is settled without reaching the database
UpdateRejectedStep ==
    /\ Len(pending') = Len(pending) - 1
    /\ applied' = applied

\* C14: updates are fire-and-forget.  A call starts at most one update and
\* can have returned while it is still pending; when the update is rejected,
\* the outcome of the call stays what it was, nothing is written, and no
\* update is started in its place.
C14_FireAndForget ==
    /\ [](Called => Len(result.updates) <= 1)
    /\ [][ UpdateRejectedStep =>
             /\ result' = result
             /\ invocations' = invocations
             /\ GovsgMessage' = GovsgMessage
             /\ GovsgMessageTransactional' = GovsgMessageTransactional
             /\ \A j \in 1..Len(pending') : \E k \in 1..Len(pending) : pending'[j] = pending[k]
          ]_vars

\* the call returned normally, its one update was rejected and is gone
C14_Witness ==
    /\ StatusCall /\ InExactlyOne
    /\ invocations = 1
    /\ result.outcome = Returned
    /\ Len(result.updates) = 1
    /\ pending = << >>
    /\ applied = << >>
    /\ InOrdinary => GovsgMessage[EventId] = NewRow(EventId)
    /\ InTransactional => GovsgMessageTransactional[EventId] = NewRow(EventId)

----------------------------------------------------------------------------
(* C16 *)

RawBody == body.messages[1].text[1].body

\* C16: the decision is taken on the sanitised body.  Whenever sanitising
\* removed something from a text message, the call sends exactly when the
\* sanitised body is non-empty, at most 256 characters long and matches no
\* pattern, whatever the raw body's length and matches are; a body made only
\* of removed characters gets no reply.
C16_DecidesOnSanitised ==
    (TextCall /\ RawBody # SanitisedBody) =>
        /\ Len(result.sends) = 1 <=> Qualifies(SanitisedBody)
        /\ Len(result.sends) <= 1
        /\ (\A i \in 1..Len(RawBody) : RawBody[i] \in BlacklistChars)
              => result.sends = << >>

\* a body that matches a pattern only once the characters are removed
C16_Witness ==
    /\ TextCall
    /\ RawBody # SanitisedBody
    /\ ~MatchesSomePattern(RawBody)
    /\ MatchesSomePattern(SanitisedBody)
    /\ Len(RawBody) <= MaxAutoReplyLen
    /\ result.sends = << >>
    /\ result.outcome = Returned

----------------------------------------------------------------------------
(* C17 *)

\* C17: when evaluating the patterns throws, the failure is contained: a text
\* message whose sanitised body passed the length checks gets no reply and
\* the call returns normally.
C17_FailureContained ==
    (/\ TextCall
     /\ regexThrows
     /\ Len(SanitisedBody) > 0
     /\ Len(SanitisedBody) <= MaxAutoReplyLen)
    => /\ matchAnyRegex(toLowerCase(SanitisedBody), SuppressionPatterns)
       /\ ~shouldSendAutoReply(SanitisedBody)
       /\ result.sends = << >>
       /\ result.outcome = Returned

\* a text that would have been answered, had the evaluation not thrown
C17_Witness ==
    /\ TextCall
    /\ regexThrows
    /\ Qualifies(SanitisedBody)
    /\ result.sends = << >>
    /\ result.outcome = Returned

----------------------------------------------------------------------------
(* C20 *)

ClassifiedErrors ==
    {MalformedWebhookError, InvariantViolationError}
        \cup { UnhandledStatusError(status) : status \in WireStatuses \ KnownStatuses }

\* C20: every call, on any payload (empty `statuses`, `messages` or
\* `contacts` included), either returns normally or fails with one of the
\* three classified errors: malformed webhook, invariant violation,
\* unhandled status.
C20_ClosedOutcomes ==
    Called => result.outcome \in {Returned} \cup ClassifiedErrors

----------------------------------------------------------------------------
(* Vocabulary of the properties about sequences of calls *)

TimestampColumns == {"sentAt", "deliveredAt", "readAt", "deletedAt", "erroredAt"}

TargetId(u) == u.whereOpts.where.serviceProviderMessageId

\* the row an update is aimed at, as it is now
TargetRow(u) ==
    IF u.model = "GovsgMessage"
    THEN GovsgMessage[TargetId(u)]
    ELSE GovsgMessageTransactional[TargetId(u)]

\* two updates made for the same status event: same record, same columns,
\* same values but for the time of the call
SameEvent(u, v) ==
    /\ u.model = v.model
    /\ TargetId(u) = TargetId(v)
    /\ DOMAIN u.fieldOpts = DOMAIN v.fieldOpts
    /\ \A k \in DOMAIN u.fieldOpts \ TimestampColumns : u.fieldOpts[k] = v.fieldOpts[k]

\* a step in which a started update reaches the database
UpdateAppliedStep == Len(applied') = Len(applied) + 1

----------------------------------------------------------------------------
(* C15 *)

----------------------------------------------------------------------------
(* C18 *)

\* a row changed in this step only by one started update aimed at it, and
\* only in the columns that update writes
RowFrame(model, old, new, id) ==
    new # old =>
        \E i \in 1..Len(pending) :
            /\ pending[i].model = model
            /\ TargetId(pending[i]) = id
            /\ DOMAIN new = DOMAIN old \cup DOMAIN pending[i].fieldOpts
            /\ \A k \in DOMAIN old :
                  k \notin DOMAIN pending[i].fieldOpts => new[k] = old[k]

\* C18: frame of reconciliation.  No step creates or deletes a record; a
\* record changes only through an update started for it, and only in the
\* columns of that update; every update a call starts is aimed at
\* statuses[0].id of its payload, and nothing but a call starts updates; so
\* a record that no update reached is as it was created.
C18_Frame ==
    /\ [][ /\ DOMAIN GovsgMessage' = DOMAIN GovsgMessage
           /\ DOMAIN GovsgMessageTransactional' = DOMAIN GovsgMessageTransactional
           /\ \A id \in DOMAIN GovsgMessage :
                 RowFrame("GovsgMessage", GovsgMessage[id], GovsgMessage'[id], id)
           /\ \A id \in DOMAIN GovsgMessageTransactional :
                 RowFrame("GovsgMessageTransactional", GovsgMessageTransactional[id],
                          GovsgMessageTransactional'[id], id)
           /\ invocations' # invocations =>
                 /\ SubSeq(pending', 1, Len(pending)) = pending
                 /\ \A j \in (Len(pending) + 1)..Len(pending') :
                       /\ Len(body'.statuses) > 0
                       /\ TargetId(pending'[j]) = body'.statuses[1].id
           /\ invocations' = invocations => Len(pending') <= Len(pending)
         ]_vars
    /\ [](\A id \in MessageIds :
            (\A i \in 1..Len(applied) : TargetId(applied[i]) # id) =>
                /\ id \in DOMAIN GovsgMessage => GovsgMessage[id] = NewRow(id)
                /\ id \in DOMAIN GovsgMessageTransactional =>
                      GovsgMessageTransactional[id] = NewRow(id))

\* after a failed event with details and then a batch "m1 delivered, m2
\* read", both updates applied: the record of m1 is DELIVERED and still holds
\* the error columns, the record of m2 is as it was created
C18_Witness ==
    /\ invocations = 2
    /\ Len(body.statuses) = 2
    /\ body.statuses[2].id = "m2"
    /\ pending = << >>
    /\ Len(applied) = 2
    /\ LET row == TargetRow(applied[2])
       IN  /\ TargetId(applied[2]) = "m1"
           /\ row.status = "DELIVERED"
           /\ DOMAIN row = {"serviceProviderMessageId", "status", "errorCode",
                            "errorDescription", "erroredAt", "deliveredAt"}
           /\ row.errorCode = "1013"
           /\ row.erroredAt = 0
           /\ row.deliveredAt = 1
    /\ \A id \in DOMAIN GovsgMessage \ {"m1"} : GovsgMessage[id] = NewRow(id)
    /\ \A id \in DOMAIN GovsgMessageTransactional \ {"m1"} :
          GovsgMessageTransactional[id] = NewRow(id)
    /\ "m2" \in DOMAIN GovsgMessage \cup DOMAIN GovsgMessageTransactional

----------------------------------------------------------------------------
(* C19 *)

\* C19: the later webhook wins.  When two status webhooks about the same
\* message were processed one after the other, each started an update, and
\* both updates have reached the record, the record's status is the mapped
\* status of the second event.
C19_LaterWebhookWins ==
    (/\ invocations = 2
     /\ StatusCall
     /\ pending = << >>
     /\ Len(applied) = 2
     /\ TargetId(applied[1]) = EventId
     /\ TargetId(applied[2]) = EventId)
    => TargetRow(applied[2]).status = govsgMessageStatusMapper(EventStatus)

====
